---- MODULE Spec2Model ----
(***************************************************************************)
(* Model of yaff/sampling/opt.py: BaseOptimizer, CGOptimizer,              *)
(* BFGSHessianModel and BFGSOptimizer.                                     *)
(*                                                                         *)
(* Numbers.  The program computes with numpy floats.  The model computes   *)
(* with exact rationals <<n, d>> (d > 0, gcd(|n|, d) = 1), so every        *)
(* statement below is a statement about the algorithm in exact arithmetic. *)
(* A norm is never taken: norm(v) < t is decided on the squares, which is  *)
(* equivalent for t >= 0, and norm(v) is kept as NormSq(v).                *)
(* Two values that are not rationals are kept: NaN (0/0) and Inf (a float  *)
(* beyond the largest finite float), in the places the source can produce  *)
(* them: a gradient that is not a number, the division of make_step and    *)
(* the growth of the ridge.                                                *)
(***************************************************************************)
EXTENDS Integers, Sequences, FiniteSets, TLC

\* ------------------------------------------------------------------------
\* Bounds of the model
\* ------------------------------------------------------------------------
\* len(dof.x0): the number of degrees of freedom
Dim == 2
\* Hessian updates applied in a row by the BFGSHessianModel specification
MaxUpd == 2
\* nstep of Iterative.run: propagate calls of one run
MaxSteps == 1
\* rejected trial steps the model follows within one make_step call
MaxRej == 2
\* ridge growths the model follows within one run
MaxGrow == 1
\* nstep of Iterative.run for the CGOptimizer specification
MaxCGSteps == 3

\* ------------------------------------------------------------------------
\* Exact rational arithmetic (the float operators of the source)
\* ------------------------------------------------------------------------
IAbs(n) == IF n < 0 THEN -n ELSE n

RECURSIVE GCD(_, _)
GCD(a, b) == IF b = 0 THEN a ELSE GCD(b, a % b)

\* n/d brought to lowest terms with a positive denominator (d # 0)
Rat(n, d) ==
    LET k == GCD(IAbs(n), IAbs(d))
        s == IF d < 0 THEN -1 ELSE 1
    IN  <<s * (n \div k), s * (d \div k)>>

Zero == <<0, 1>>
One == <<1, 1>>

\* nan and inf of the floats
NaN == <<0, 0>>
Inf == <<1, 0>>

RNeg(a) == <<-a[1], a[2]>>
RAbs(a) == <<IAbs(a[1]), a[2]>>

RAdd(a, b) ==
    LET k == GCD(a[2], b[2])
    IN  Rat(a[1] * (b[2] \div k) + b[1] * (a[2] \div k), (a[2] \div k) * b[2])

RSub(a, b) == RAdd(a, RNeg(b))

\* the factors are cancelled crosswise before the products are taken
RMul(a, b) ==
    LET k1 == GCD(IAbs(a[1]), b[2])
        k2 == GCD(IAbs(b[1]), a[2])
    IN  <<(a[1] \div k1) * (b[1] \div k2), (a[2] \div k2) * (b[2] \div k1)>>

\* a / b for b # 0
RDiv(a, b) ==
    RMul(a, IF b[1] > 0 THEN <<b[2], b[1]>> ELSE <<-b[2], -b[1]>>)

\* -1, 0, 1 as a/b is below, equal to, above c/d (a, c >= 0 and b, d > 0),
\* by the continued fractions of the two, so that no product is taken
RECURSIVE CmpPos(_, _, _, _)
CmpPos(a, b, c, d) ==
    LET qa == a \div b
        qc == c \div d
        ra == a % b
        rc == c % d
    IN  IF qa # qc THEN (IF qa < qc THEN -1 ELSE 1)
        ELSE IF ra = 0 /\ rc = 0 THEN 0
        ELSE IF ra = 0 THEN -1
        ELSE IF rc = 0 THEN 1
        ELSE CmpPos(d, rc, b, ra)

RCmp(a, b) ==
    IF a[1] < 0 /\ b[1] >= 0 THEN -1
    ELSE IF a[1] >= 0 /\ b[1] < 0 THEN 1
    ELSE IF a[1] < 0 THEN CmpPos(-b[1], b[2], -a[1], a[2])
    ELSE CmpPos(a[1], a[2], b[1], b[2])

RLt(a, b) == RCmp(a, b) < 0
RLe(a, b) == RCmp(a, b) <= 0
RGt(a, b) == RCmp(a, b) > 0
RMax(a, b) == IF RLt(a, b) THEN b ELSE a

\* ------------------------------------------------------------------------
\* Vectors and matrices (numpy arrays of the source)
\* ------------------------------------------------------------------------
Idx == 1..Dim

\* an array given by its entries, built once (a tuple)
RECURSIVE ArrTo(_, _)
ArrTo(fn, n) == IF n = 0 THEN <<>> ELSE Append(ArrTo(fn, n - 1), fn[n])
Arr(fn) == ArrTo(fn, Dim)

RECURSIVE SumTo(_, _)
SumTo(v, n) == IF n = 0 THEN Zero ELSE RAdd(SumTo(v, n - 1), v[n])

RECURSIVE MaxTo(_, _)
MaxTo(v, n) == IF n = 1 THEN v[1] ELSE RMax(MaxTo(v, n - 1), v[n])

\* np.dot(u, v) of two vectors
Dot(u, v) == SumTo(Arr([i \in Idx |-> RMul(u[i], v[i])]), Dim)

\* np.dot(m, v) of a matrix and a vector
MatVec(m, v) == Arr([i \in Idx |-> Dot(m[i], v)])

VAdd(u, v) == Arr([i \in Idx |-> RAdd(u[i], v[i])])
VSub(u, v) == Arr([i \in Idx |-> RSub(u[i], v[i])])

\* abs(v).max()
MaxAbsVec(v) == MaxTo(Arr([i \in Idx |-> RAbs(v[i])]), Dim)

\* abs(m).max()
MaxAbsMat(m) == MaxTo(Arr([i \in Idx |-> MaxAbsVec(m[i])]), Dim)

\* np.linalg.norm(v) ** 2
NormSq(v) == Dot(v, v)

\* np.identity(size, float)
Identity == Arr([i \in Idx |-> Arr([j \in Idx |-> IF i = j THEN One ELSE Zero])])

ZeroVec == Arr([i \in Idx |-> Zero])

\* a vector of nan, and whether a vector holds a nan
NaNVec == Arr([i \in Idx |-> NaN])
HasNaN(v) == \E k \in Idx : v[k] = NaN

\* norm(v) < t and norm(v) <= t for a vector without nan and t >= 0.  The norm
\* of a vector with at most one nonzero entry is the absolute value of that
\* entry; otherwise the comparison is made on the squares.
NormLt(v, t) ==
    LET nz == {k \in Idx : v[k] # Zero}
    IN  IF nz = {} THEN RLt(Zero, t)
        ELSE IF Cardinality(nz) = 1 THEN RLt(RAbs(v[CHOOSE k \in nz : TRUE]), t)
        ELSE RLt(NormSq(v), RMul(t, t))

NormLe(v, t) ==
    LET nz == {k \in Idx : v[k] # Zero}
    IN  IF nz = {} THEN RLe(Zero, t)
        ELSE IF Cardinality(nz) = 1 THEN RLe(RAbs(v[CHOOSE k \in nz : TRUE]), t)
        ELSE RLe(NormSq(v), RMul(t, t))

\* ------------------------------------------------------------------------
\* BFGSHessianModel
\* ------------------------------------------------------------------------
\* the literal 1e-5 of the two gates
Eps == <<1, 100000>>

\* first gate: hmax*denom1 <= 1e-5*abs(tmp).max()
Gate1(H, dx) ==
    LET tmp == MatVec(H, dx)
    IN  RLe(RMul(MaxAbsMat(H), Dot(dx, tmp)), RMul(Eps, MaxAbsVec(tmp)))

\* Gate2 on the size of denom2, whatever its sign
Gate2Abs(H, dx, dg) ==
    RLe(RMul(MaxAbsMat(H), RAbs(Dot(dg, dx))), RMul(Eps, MaxAbsVec(dg)))

\* second gate: hmax*denom2 <= 1e-5*abs(dg).max()
Gate2(H, dx, dg) ==
    RLe(RMul(MaxAbsMat(H), Dot(dg, dx)), RMul(Eps, MaxAbsVec(dg)))

\* Rank2 with the first correction taken as outer(tmp, dx): not symmetric
Rank2Skew(H, dx, dg) ==
    LET tmp == MatVec(H, dx)
        denom1 == Dot(dx, tmp)
        denom2 == Dot(dg, dx)
    IN  Arr([i \in Idx |-> Arr([j \in Idx |->
            RAdd(RSub(H[i][j], RDiv(RMul(tmp[i], dx[j]), denom1)),
                 RDiv(RMul(dg[i], dg[j]), denom2))])])

\* Rank2 with the two denominators exchanged
Rank2Swapped(H, dx, dg) ==
    LET tmp == MatVec(H, dx)
        denom1 == Dot(dx, tmp)
        denom2 == Dot(dg, dx)
    IN  Arr([i \in Idx |-> Arr([j \in Idx |->
            RAdd(RSub(H[i][j], RDiv(RMul(tmp[i], tmp[j]), denom2)),
                 RDiv(RMul(dg[i], dg[j]), denom1))])])

\* the two in-place corrections, entry by entry
Rank2(H, dx, dg) ==
    LET tmp == MatVec(H, dx)
        denom1 == Dot(dx, tmp)
        denom2 == Dot(dg, dx)
    IN  Arr([i \in Idx |-> Arr([j \in Idx |->
            RAdd(RSub(H[i][j], RDiv(RMul(tmp[i], tmp[j]), denom1)),
                 RDiv(RMul(dg[i], dg[j]), denom2))])])

\* BFGSHessianModel.update: the Hessian after update(dx, dg)
Update(H, dx, dg) ==
    IF Gate1(H, dx) THEN H
    ELSE IF Gate2(H, dx, dg) THEN H
    ELSE Rank2(H, dx, dg)

\* BFGSHessianModel.get_spectrum for a diagonal Hessian: np.linalg.eigh
\* returns the eigenvalues in ascending order, and for a diagonal matrix the
\* eigenvectors are the unit vectors in that order.  Rank(H, i) is the place
\* of H[i][i] in the ascending order (ties in index order).
Rank(H, i) ==
    1 + Cardinality({j \in Idx : \/ RLt(H[j][j], H[i][i])
                                 \/ (H[j][j] = H[i][i] /\ j < i)})

IsDiagonal(H) == \A i \in Idx, j \in Idx : i # j => H[i][j] = Zero

Evals(H) ==
    Arr([k \in Idx |-> LET i == CHOOSE j \in Idx : Rank(H, j) = k IN H[i][i]])

Evecs(H) ==
    Arr([i \in Idx |-> Arr([k \in Idx |-> IF Rank(H, i) = k THEN One ELSE Zero])])

\* ------------------------------------------------------------------------
\* BFGSOptimizer.make_step, piece by piece
\* ------------------------------------------------------------------------
\* evecs.T: the transpose
Transpose(m) == Arr([i \in Idx |-> Arr([j \in Idx |-> m[j][i]])])

\* tmp1 = -np.dot(evecs.T, self.g_old); a nan in g_old makes every entry nan
Tmp1(ec, gold) ==
    IF HasNaN(gold) THEN NaNVec
    ELSE LET v == MatVec(Transpose(ec), gold) IN Arr([k \in Idx |-> RNeg(v[k])])

\* evals.min()
MinEval(ev) == RNeg(MaxTo(Arr([k \in Idx |-> RNeg(ev[k])]), Dim))

\* the literals 1.1, 1.2 and 0.5 of make_step
RidgeInitFactor == <<11, 10>>
GrowFactor == <<6, 5>>
ShrinkFactor == <<1, 2>>

\* initial ridge parameter
InitialRidge(ev) ==
    IF RLe(MinEval(ev), Zero) THEN RMul(RAbs(MinEval(ev)), RidgeInitFactor)
    ELSE Zero

\* evals**2 + ridge**2 of one eigenvalue, for a finite ridge
Denominator(lambda, rdg) == RAdd(RMul(lambda, lambda), RMul(rdg, rdg))

\* tmp2 = tmp1*evals/(evals**2 + ridge**2).  numpy divides 0 by 0 to nan (the
\* numerator is 0 whenever the denominator is) and a finite number by inf to 0.
Tmp2(t1, ev, rdg) ==
    Arr([k \in Idx |->
        IF t1[k] = NaN THEN NaN
        ELSE IF rdg = Inf THEN Zero
        ELSE IF Denominator(ev[k], rdg) = Zero THEN NaN
        ELSE RDiv(RMul(t1[k], ev[k]), Denominator(ev[k], rdg))])

\* Fits with radius <= self.trust_radius
FitsOrEqual(q, tr) == ~HasNaN(q) /\ NormLe(q, tr)

\* radius < self.trust_radius; a comparison with nan is False
Fits(q, tr) == ~HasNaN(q) /\ NormLt(q, tr)

\* MinNonzeroAbs without the mask: abs(evals).min()
MinAbsAny(ev) ==
    RAbs(ev[CHOOSE k \in Idx : \A l \in Idx : RLe(RAbs(ev[k]), RAbs(ev[l]))])

\* abs(evals[evals!=0.0]).min()
MinNonzeroAbs(ev) ==
    LET nz == {k \in Idx : ev[k] # Zero}
    IN  RAbs(ev[CHOOSE k \in nz : \A l \in nz : RLe(RAbs(ev[k]), RAbs(ev[l]))])

\* the largest finite float of the model, and a float product: a product
\* beyond the largest finite float is inf
FloatMax == <<4, 1>>
FloatMul(a, b) ==
    IF a = Inf THEN Inf
    ELSE IF RGt(RMul(a, b), FloatMax) THEN Inf ELSE RMul(a, b)

\* GrowRidge without the product: the ridge stays as it is
GrowRidgeStall(ev, rdg) ==
    IF rdg = Zero THEN MinNonzeroAbs(ev) ELSE rdg

\* the growth of the ridge when the step does not fit (some eigenvalue is not
\* zero when ridge == 0.0)
GrowRidge(ev, rdg) ==
    IF rdg = Zero THEN MinNonzeroAbs(ev) ELSE FloatMul(rdg, GrowFactor)

\* delta_x = np.dot(evecs, tmp2)
DeltaX(ec, q) == MatVec(ec, q)

\* Test1 with "and" for "or": an energy increase alone no longer rejects
Test1Both(fv, gv, fold, gold, tr, sr) ==
    /\ RGt(RSub(fv, fold), Zero)
    /\ (RLt(tr, sr) /\ RLt(NormSq(gv), NormSq(gold)))

\* first test: delta_f > 0 or (trust_radius < small_radius and delta_norm_g < 0)
Test1(fv, gv, fold, gold, tr, sr) ==
    \/ RGt(RSub(fv, fold), Zero)
    \/ (RLt(tr, sr) /\ RLt(NormSq(gv), NormSq(gold)))

\* Test2 with the comparison turned round
Test2Flipped(dx, gv) == RLt(Dot(dx, gv), Zero)

\* second test: np.dot(delta_x, g) > 0
Test2(dx, gv) == RGt(Dot(dx, gv), Zero)

\* Shrink by 0.25
ShrinkQuarter(tr) == RMul(tr, <<1, 4>>)

\* self.trust_radius *= 0.5
Shrink(tr) == RMul(tr, ShrinkFactor)

\* Expand by 1.5
ExpandMore(tr) == RMul(tr, <<3, 2>>)

\* self.trust_radius *= 1.2
Expand(tr) == RMul(tr, GrowFactor)

\* ------------------------------------------------------------------------
\* State
\* ------------------------------------------------------------------------
VARIABLES
    pc,            \* where the run is: "new", "inner", "trial", "idle",
                   \* "stopped", "final"; "hess" in the Hessian specification
    nprop,         \* propagate calls of the run so far
    x,             \* the optimizer's current point
    epot,          \* BaseOptimizer.epot
    \* Iterative and the DOF
    counter,       \* Iterative.counter
    converged,     \* dof.converged
    nconv,         \* calls of dof.check_convergence so far
    nhooks,        \* hook dispatches so far
    seen,          \* nconv as the latest hook dispatch found it
    ret,           \* what the latest propagate returned (FALSE before the first)
    \* BFGSOptimizer
    caller,        \* the method make_step returns to
    x_old, f_old, g_old,   \* the previous point
    f, g,          \* energy and gradient of the current point
    trust_radius,
    small_radius,
    evals, evecs,  \* make_step's local spectrum of the Hessian
    tmp1,          \* make_step's local tmp1
    ridge,         \* make_step's local ridge
    tmp2,          \* make_step's local tmp2 (the step in the eigenbasis)
    lap,           \* parity of the ridge growths of the current make_step call
    ngrow,         \* ridge growths of the run so far
    nrej,          \* rejections in the current make_step call
    tr_start,      \* trust_radius on entry of the current make_step call
    last,          \* the last trial of make_step and its verdict
    \* BFGSHessianModel
    hessian,       \* BFGSHessianModel.hessian
    upd,           \* the last update call: its arguments and the Hessian before it
    nupd,          \* number of update calls so far
    \* CGOptimizer
    min_x,         \* minimizer.x
    success,       \* what the latest minimizer.propagate returned
    nmin           \* calls of minimizer.propagate so far

drivervars == <<counter, converged, nconv, nhooks, seen, ret>>
pointvars == <<x_old, f_old, g_old>>
stepvars == <<evals, evecs, tmp1, ridge, tmp2, lap>>
trustvars == <<trust_radius, small_radius, ngrow, nrej, tr_start, last>>
hessvars == <<hessian, upd, nupd>>
cgvars == <<min_x, success, nmin>>
bfgsvars == <<caller, pointvars, f, g, stepvars, trustvars>>

vars == <<pc, nprop, x, epot, drivervars, bfgsvars, hessvars, cgvars>>

NoUpd == [called |-> FALSE]
NoTrial == [verdict |-> "none"]

\* ------------------------------------------------------------------------
\* The collaborators of the optimizers
\* ------------------------------------------------------------------------
\* dof.fun(x, True): the energies and gradients the force field may return.
\* The gradient acts on the first degree of freedom only, which keeps the
\* Hessian diagonal, the case get_spectrum is modelled for.
FVals == {Zero, One}
GVals == {<<-1, 1>>, Zero, <<1, 4>>, <<3, 4>>, One}
GVecs == {Arr([i \in Idx |-> IF i = 1 THEN a ELSE Zero]) : a \in GVals}

\* dof.x0
X0 == ZeroVec

\* the small_radius arguments of BFGSOptimizer.__init__, which takes any
\* number: the default, one that the trust radius falls below after one
\* rejection, and two malformed ones, zero and a negative number
SmallRadii == {Eps, <<3, 4>>, Zero, <<-1, 1>>}

\* counter0
Counter0 == 0

\* EpotAfterFun with the energy cached by the first call only
EpotStale(old, fv) == old

\* BaseOptimizer.fun: self.epot after a call that evaluated the energy fv
EpotAfterFun(old, fv) == fv

\* dof.check_convergence(): the converged flags it may leave when n calls came
\* before.  The first call only records the baseline and never flags
\* convergence.
ConvAfterCheck(n) == IF n = 0 THEN {FALSE} ELSE BOOLEAN

\* what a hook dispatched by Iterative finds, the refresh being made before
\* (nafter) the delegation to Iterative
HookView(nbefore, nafter) == nafter

\* Iterative.initialize: the first hook dispatch
IterativeInitialize(view) ==
    /\ counter' = counter
    /\ nhooks' = nhooks + 1
    /\ seen' = view

\* Iterative.propagate: the counter, then the hook dispatch
IterativePropagate(view) ==
    /\ counter' = counter + 1
    /\ nhooks' = nhooks + 1
    /\ seen' = view

\* BaseOptimizer.initialize
BaseInitialize ==
    /\ nconv' = nconv + 1
    /\ converged' \in ConvAfterCheck(nconv)
    /\ IterativeInitialize(HookView(nconv, nconv'))
    /\ ret' = ret

\* BaseReturn with the flag read before the refresh
ReturnStale(before, after) == before

\* the value BaseOptimizer.propagate returns: dof.converged, read after the
\* refresh
BaseReturn(before, after) == after

\* BaseOptimizer.propagate
BasePropagate ==
    /\ nconv' = nconv + 1
    /\ converged' \in ConvAfterCheck(nconv)
    /\ IterativePropagate(HookView(nconv, nconv'))
    /\ ret' = BaseReturn(converged, converged')

\* Iterative.run: the loop ends when propagate returns True
AfterPropagate(r) == IF r THEN "stopped" ELSE "idle"

\* the fields no optimizer has set yet, and the ghost counters
InitCommon ==
    /\ nprop = 0
    /\ x = ZeroVec /\ epot = Zero
    /\ counter = Counter0 /\ converged = FALSE
    /\ nconv = 0 /\ nhooks = 0 /\ seen = 0 /\ ret = FALSE
    /\ caller = "none"
    /\ x_old = X0 /\ f_old = Zero /\ g_old = ZeroVec
    /\ f = Zero /\ g = ZeroVec
    /\ trust_radius = One
    /\ evals = ZeroVec /\ evecs = Identity /\ tmp1 = ZeroVec /\ tmp2 = ZeroVec
    /\ ridge = Zero /\ lap = 0
    /\ ngrow = 0 /\ nrej = 0 /\ tr_start = One /\ last = NoTrial
    /\ hessian = Identity /\ upd = NoUpd /\ nupd = 0
    /\ min_x = X0 /\ success = TRUE /\ nmin = 0

\* ------------------------------------------------------------------------
\* Specification of BFGSHessianModel alone: any sequence of update calls.
\* The arguments are the vectors (a, b, a, b, ...) with a, b in HessVals; the
\* sign of dx is fixed because update(dx, dg) and update(-dx, -dg) agree.
\* ------------------------------------------------------------------------
HessVals == {<<-1, 1>>, Zero, One}
Alt(a, b) == Arr([i \in Idx |-> IF i % 2 = 1 THEN a ELSE b])
HessDg == {Alt(a, b) : a \in HessVals, b \in HessVals}
HessDx == {v \in HessDg : v[1] = One \/ (v[1] = Zero /\ v[2] # <<-1, 1>>)}

InitHess ==
    /\ pc = "hess"
    /\ small_radius = Eps
    /\ InitCommon

HessUpdate ==
    /\ pc = "hess"
    /\ nupd < MaxUpd
    /\ \E dx \in HessDx, dg \in HessDg :
        /\ hessian' = Update(hessian, dx, dg)
        /\ upd' = [called |-> TRUE, dx |-> dx, dg |-> dg, H |-> hessian]
    /\ nupd' = nupd + 1
    /\ UNCHANGED <<pc, nprop, x, epot, drivervars, bfgsvars, cgvars>>

NextHess == HessUpdate

SpecHess == InitHess /\ [][NextHess]_vars

\* ------------------------------------------------------------------------
\* BFGSOptimizer
\* ------------------------------------------------------------------------
\* BFGSOptimizer.__init__
InitBFGS ==
    /\ pc = "new"
    /\ small_radius \in SmallRadii
    /\ InitCommon

\* make_step from its entry to the trust radius loop: the spectrum of H,
\* tmp1 and the initial ridge
EnterMakeStep(H, gold, who) ==
    /\ evals' = Evals(H)
    /\ evecs' = Evecs(H)
    /\ tmp1' = Tmp1(evecs', gold)
    /\ ridge' = InitialRidge(evals')
    /\ lap' = 0
    /\ tr_start' = trust_radius
    /\ nrej' = 0
    /\ caller' = who
    /\ pc' = "inner"

\* BFGSOptimizer.initialize, up to the loops of make_step
BFGSInitialize ==
    /\ pc = "new"
    /\ \E fv \in FVals, gv \in GVecs :
        /\ f_old' = fv
        /\ g_old' = gv
        /\ epot' = EpotAfterFun(epot, fv)
    /\ EnterMakeStep(hessian, g_old', "initialize")
    /\ UNCHANGED <<nprop, x, drivervars, x_old, f, g, tmp2, trust_radius,
                   small_radius, ngrow, last, hessvars, cgvars>>

\* UpdateArgs with the roll made before the update: the old values are the
\* new ones already
UpdateArgsRolled(xn, xo, gn, go) == [dx |-> VSub(xn, xn), dg |-> VSub(gn, gn)]

\* the arguments propagate passes to hessian.update
UpdateArgs(xn, xo, gn, go) == [dx |-> VSub(xn, xo), dg |-> VSub(gn, go)]

\* BFGSOptimizer.propagate, up to the loops of make_step: the Hessian update
\* from the old and the new point, then the roll of the new into the old
BFGSPropagate ==
    /\ pc = "idle"
    /\ nprop < MaxSteps
    /\ nprop' = nprop + 1
    /\ LET a == UpdateArgs(x, x_old, g, g_old)
       IN  /\ hessian' = Update(hessian, a.dx, a.dg)
           /\ upd' = [called |-> TRUE, dx |-> a.dx, dg |-> a.dg, H |-> hessian]
    /\ nupd' = nupd + 1
    /\ x_old' = x
    /\ f_old' = f
    /\ g_old' = g
    /\ EnterMakeStep(hessian', g_old', "propagate")
    /\ UNCHANGED <<x, epot, drivervars, f, g, tmp2, trust_radius, small_radius,
                   ngrow, last, cgvars>>

\* inner loop, radius < trust_radius: break with the step tmp2
InnerFits ==
    /\ pc = "inner"
    /\ LET q == Tmp2(tmp1, evals, ridge)
       IN  /\ Fits(q, trust_radius)
           /\ tmp2' = q
    /\ pc' = "trial"
    /\ UNCHANGED <<nprop, x, epot, drivervars, caller, pointvars, f, g, evals,
                   evecs, tmp1, ridge, lap, trustvars, hessvars, cgvars>>

\* the growths of the ridge the model follows: MaxGrow of them in a run when
\* the step is computed; all of them when tmp1 is nan, which takes no
\* arithmetic (these are not counted)
Followed == HasNaN(tmp1) \/ ngrow < MaxGrow

\* inner loop, not radius < trust_radius: the ridge grows
InnerGrow ==
    /\ pc = "inner"
    /\ LET q == Tmp2(tmp1, evals, ridge)
       IN  /\ ~Fits(q, trust_radius)
           /\ tmp2' = q
    /\ ridge = Zero => \E k \in Idx : evals[k] # Zero
    /\ Followed
    /\ ridge' = GrowRidge(evals, ridge)
    /\ lap' = 1 - lap
    /\ ngrow' = IF HasNaN(tmp1) THEN ngrow ELSE ngrow + 1
    /\ UNCHANGED <<pc, nprop, x, epot, drivervars, caller, pointvars, f, g,
                   evals, evecs, tmp1, trust_radius, small_radius, nrej,
                   tr_start, last, hessvars, cgvars>>

\* inner loop, not radius < trust_radius, ridge == 0.0 and no eigenvalue
\* differs from zero: abs(evals[evals!=0.0]).min() is the minimum of an empty
\* array, numpy raises ValueError and nothing catches it
InnerCrash ==
    /\ pc = "inner"
    /\ ridge = Zero
    /\ \A k \in Idx : evals[k] = Zero
    /\ LET q == Tmp2(tmp1, evals, ridge)
       IN  /\ ~Fits(q, trust_radius)
           /\ tmp2' = q
    /\ pc' = "crash"
    /\ UNCHANGED <<nprop, x, epot, drivervars, caller, pointvars, f, g,
                   evals, evecs, tmp1, ridge, lap, trustvars, hessvars, cgvars>>

\* the trial of make_step as the ghost variable last keeps it
TrialRec(fv, gv, dx, v) ==
    [verdict |-> v, f |-> fv, g |-> gv, f_old |-> f_old, g_old |-> g_old,
     q |-> tmp2, delta_x |-> dx, tr |-> trust_radius]

\* the trial point is rejected: the trust radius shrinks, back to the inner loop
Reject(fv, gv, dx, v) ==
    /\ nrej < MaxRej
    /\ epot' = EpotAfterFun(epot, fv)
    /\ trust_radius' = Shrink(trust_radius)
    /\ nrej' = nrej + 1
    /\ last' = TrialRec(fv, gv, dx, v)
    /\ pc' = "inner"
    /\ UNCHANGED <<nprop, x, drivervars, caller, pointvars, f, g, stepvars,
                   small_radius, ngrow, tr_start, hessvars, cgvars>>

\* rejection by the first test
TrialRejectFirst ==
    /\ pc = "trial"
    /\ LET dx == DeltaX(evecs, tmp2)
       IN  \E fv \in FVals, gv \in GVecs :
            /\ Test1(fv, gv, f_old, g_old, trust_radius, small_radius)
            /\ Reject(fv, gv, dx, "reject1")

\* rejection by the second test
TrialRejectSecond ==
    /\ pc = "trial"
    /\ LET dx == DeltaX(evecs, tmp2)
       IN  \E fv \in FVals, gv \in GVecs :
            /\ ~Test1(fv, gv, f_old, g_old, trust_radius, small_radius)
            /\ Test2(dx, gv)
            /\ Reject(fv, gv, dx, "reject2")

\* make_step returns x, f, g
Accept ==
    /\ LET dx == DeltaX(evecs, tmp2)
       IN  \E fv \in FVals, gv \in GVecs :
            /\ ~Test1(fv, gv, f_old, g_old, trust_radius, small_radius)
            /\ ~Test2(dx, gv)
            /\ epot' = EpotAfterFun(epot, fv)
            /\ trust_radius' = Expand(trust_radius)
            /\ x' = VAdd(x_old, dx)
            /\ f' = fv
            /\ g' = gv
            /\ last' = TrialRec(fv, gv, dx, "accept")
    /\ UNCHANGED <<nprop, caller, pointvars, stepvars, small_radius, ngrow, nrej,
                   tr_start, hessvars, cgvars>>

\* the trial is accepted in initialize: BaseOptimizer.initialize follows
AcceptInInitialize ==
    /\ pc = "trial"
    /\ caller = "initialize"
    /\ Accept
    /\ BaseInitialize
    /\ pc' = "idle"

\* the trial is accepted in propagate: BaseOptimizer.propagate follows and its
\* result ends the run or not
AcceptInPropagate ==
    /\ pc = "trial"
    /\ caller = "propagate"
    /\ Accept
    /\ BasePropagate
    /\ pc' = AfterPropagate(ret')

\* the end of Iterative.run (propagate returned True, or nstep steps are
\* made): finalize
Finalize ==
    /\ \/ pc = "stopped"
       \/ (pc = "idle" /\ nprop = MaxSteps)
    /\ pc' = "final"
    /\ UNCHANGED <<nprop, x, epot, drivervars, bfgsvars, hessvars, cgvars>>

\* ------------------------------------------------------------------------
\* make_step on its own: one call on an optimizer whose Hessian model holds
\* any diagonal matrix with entries of StepEvals (also not positive
\* definite), whose g_old is any of StepGVecs (also nan) and whose trust
\* radius is that of __init__.
\* ------------------------------------------------------------------------
StepEvals == {<<-1, 1>>, Zero, One, <<2, 1>>}
StepHess ==
    {Arr([i \in Idx |-> Arr([j \in Idx |-> IF i = j THEN d[i] ELSE Zero])]) :
        d \in [Idx -> StepEvals]}
StepGVecs ==
    {Arr([i \in Idx |-> IF i = 1 THEN a ELSE Zero]) : a \in {Zero, <<1, 4>>, <<5, 8>>}}
        \cup {NaNVec}

InitStep ==
    /\ pc = "new"
    /\ small_radius \in SmallRadii
    /\ InitCommon

\* the call of make_step, up to its loops
StepCall ==
    /\ pc = "new"
    /\ \E H \in StepHess, fv \in FVals, gv \in StepGVecs :
        /\ hessian' = H
        /\ f_old' = fv
        /\ g_old' = gv
        /\ epot' = EpotAfterFun(epot, fv)
    /\ EnterMakeStep(hessian', g_old', "step")
    /\ UNCHANGED <<nprop, x, drivervars, x_old, f, g, tmp2, trust_radius,
                   small_radius, ngrow, last, upd, nupd, cgvars>>

\* make_step returns to the caller of this call
AcceptInStep ==
    /\ pc = "trial"
    /\ caller = "step"
    /\ Accept
    /\ pc' = "returned"
    /\ UNCHANGED drivervars

NextStep ==
    \/ StepCall
    \/ InnerFits
    \/ InnerGrow
    \/ InnerCrash
    \/ TrialRejectFirst
    \/ TrialRejectSecond
    \/ AcceptInStep

SpecStep == InitStep /\ [][NextStep]_vars

\* a growth of the ridge in a call whose tmp1 is nan
NaNGrow == pc = "inner" /\ HasNaN(tmp1) /\ InnerGrow

\* make_step on its own, where the interpreter goes on with the inner loop of
\* a call whose tmp1 is nan: it does not stop between two iterations, nor
\* before the exception.  (The calls with a computed step may stop anywhere.)
SpecStepFair ==
    /\ SpecStep
    /\ WF_vars(NaNGrow)
    /\ WF_vars(InnerCrash)

Next ==
    \/ BFGSInitialize
    \/ BFGSPropagate
    \/ InnerFits
    \/ InnerGrow
    \/ TrialRejectFirst
    \/ TrialRejectSecond
    \/ AcceptInInitialize
    \/ AcceptInPropagate
    \/ Finalize

Spec == InitBFGS /\ [][Next]_vars

\* the BFGSOptimizer, or its BFGSHessianModel under any sequence of updates
SpecBoth == (InitBFGS \/ InitHess) /\ [][Next \/ NextHess]_vars

\* ------------------------------------------------------------------------
\* CGOptimizer.  The minimizer of molmod is an external collaborator: a step
\* of it may succeed or fail, leaves any point in minimizer.x and any energy
\* in epot (it evaluates the energy through BaseOptimizer.fun).
\* ------------------------------------------------------------------------
XVals == GVecs

\* CGOptimizer.__init__
InitCG ==
    /\ pc = "new"
    /\ small_radius = Eps
    /\ InitCommon

\* CGOptimizer.initialize
CGInitialize ==
    /\ pc = "new"
    /\ \E fv \in FVals : epot' = fv
    /\ BaseInitialize
    /\ pc' = "idle"
    /\ UNCHANGED <<nprop, x, bfgsvars, hessvars, cgvars>>

\* LineSearchFailed with the failure never noticed
NeverFailed(s) == FALSE

\* success == False
LineSearchFailed(s) == s = FALSE

\* CGOptimizer.propagate
CGPropagate ==
    /\ pc = "idle"
    /\ nprop < MaxCGSteps
    /\ nprop' = nprop + 1
    /\ nmin' = nmin + 1
    /\ \E s \in BOOLEAN, xv \in XVals, fv \in FVals :
        /\ success' = s
        /\ min_x' = xv
        /\ epot' = fv
    /\ x' = min_x'
    /\ IF LineSearchFailed(success')
       THEN /\ ret' = TRUE
            /\ UNCHANGED <<counter, converged, nconv, nhooks, seen>>
       ELSE BasePropagate
    /\ pc' = AfterPropagate(ret')
    /\ UNCHANGED <<bfgsvars, hessvars>>

\* the end of Iterative.run for the CGOptimizer
CGFinalize ==
    /\ \/ pc = "stopped"
       \/ (pc = "idle" /\ nprop = MaxCGSteps)
    /\ pc' = "final"
    /\ UNCHANGED <<nprop, x, epot, drivervars, bfgsvars, hessvars, cgvars>>

NextCG ==
    \/ CGInitialize
    \/ CGPropagate
    \/ CGFinalize

SpecCG == InitCG /\ [][NextCG]_vars

\* ------------------------------------------------------------------------
\* Properties
\* ------------------------------------------------------------------------
\* make_step has returned an accepted step to initialize or propagate
Returned == pc \in {"idle", "stopped", "final"}

RECURSIVE Pow2(_)
Pow2(n) == IF n = 0 THEN One ELSE RMul(<<2, 1>>, Pow2(n - 1))

\* C1: for every accepted step, with the trust radius of the acceptance test,
\* f <= f_old or (trust_radius < small_radius and |g| < |g_old|), and
\* delta_x . g <= 0 for delta_x = x - x_old and g the gradient at x.
C1_AcceptedStep ==
    Returned =>
        /\ last.verdict = "accept"
        /\ \/ RLe(f, f_old)
           \/ (RLt(last.tr, small_radius) /\ RLt(NormSq(g), NormSq(g_old)))
        /\ RLe(Dot(VSub(x, x_old), g), Zero)

C1_Witness ==
    /\ Returned
    /\ nrej >= 1
    /\ RLt(f, f_old)
    /\ RLt(Dot(VSub(x, x_old), g), Zero)

\* C2: the first acceptance test rejects a trial exactly when f > f_old if
\* trust_radius >= small_radius, and exactly when |g| >= |g_old| if
\* trust_radius < small_radius.
C2_FirstTestAsDocumented ==
    last.verdict # "none" =>
        IF RLt(last.tr, small_radius)
        THEN (last.verdict = "reject1")
                <=> ~RLt(NormSq(last.g), NormSq(last.g_old))
        ELSE (last.verdict = "reject1") <=> RGt(last.f, last.f_old)

C4_RejectionHalves ==
    [][/\ nrej' = nrej + 1 =>
            /\ RMul(trust_radius', <<2, 1>>) = trust_radius
            /\ UNCHANGED <<x_old, f_old, g_old, hessian>>
       /\ pc' \in {"inner", "trial"} =>
            RMul(trust_radius', Pow2(nrej')) = tr_start']_vars

C4_Witness ==
    /\ pc = "inner"
    /\ nrej >= 2
    /\ last.verdict = "reject2"

\* C5 as stated: when make_step returns, trust_radius is 1.2 times its value
\* at the start of the call.
C5_Original == Returned => trust_radius = RMul(tr_start, <<6, 5>>)

\* C5 as amended: when make_step returns after N rejected trials,
\* trust_radius is 1.2 * 0.5^N times its value at the start of the call.
C5_GrowthAfterRejections ==
    Returned => RMul(trust_radius, Pow2(nrej)) = RMul(tr_start, <<6, 5>>)

C5_Witness ==
    /\ Returned
    /\ nrej >= 1

\* C6: for every accepted step |delta_x| = |q| is strictly below the trust
\* radius of the acceptance test (trust_radius before the growth by 1.2),
\* also after rejections in the same call.
C6_StepInsideTrustRadius ==
    Returned =>
        /\ NormSq(VSub(x, x_old)) = NormSq(tmp2)
        /\ RLt(NormSq(VSub(x, x_old)), RMul(last.tr, last.tr))
        /\ RMul(last.tr, <<6, 5>>) = trust_radius

C6_Witness ==
    /\ Returned
    /\ nrej >= 1
    /\ ridge # Zero
    /\ x # x_old

\* C7: the Hessian is exactly symmetric after every update call, applied or
\* skipped.
C7_Symmetric == \A i \in Idx, j \in Idx : hessian[i][j] = hessian[j][i]

C7_Witness ==
    /\ nupd >= 2
    /\ hessian # upd.H
    /\ ~IsDiagonal(hessian)
    /\ ~IsDiagonal(upd.H)

\* C8: update(dx, dg) leaves H as it is when hmax*denom1 <= 1e-5*max|Hdx| or
\* hmax*denom2 <= 1e-5*max|dg|, and otherwise sets it to
\* H - outer(Hdx, Hdx)/denom1 + outer(dg, dg)/denom2, all taken from the H
\* before the call.  The second case is stated without divisions:
\* (H' - H)[i][j] * denom1 * denom2 = dg[i]*dg[j]*denom1 - Hdx[i]*Hdx[j]*denom2
\* with denom1 and denom2 not zero.
C8_UpdateFormula ==
    upd.called =>
        LET Hdx == MatVec(upd.H, upd.dx)
            denom1 == Dot(upd.dx, Hdx)
            denom2 == Dot(upd.dg, upd.dx)
            hmax == MaxAbsMat(upd.H)
            skip == \/ RLe(RMul(hmax, denom1), RMul(<<1, 100000>>, MaxAbsVec(Hdx)))
                    \/ RLe(RMul(hmax, denom2), RMul(<<1, 100000>>, MaxAbsVec(upd.dg)))
        IN  IF skip THEN hessian = upd.H
            ELSE /\ denom1 # Zero
                 /\ denom2 # Zero
                 /\ \A i \in Idx, j \in Idx :
                        RMul(RSub(hessian[i][j], upd.H[i][j]), RMul(denom1, denom2))
                        = RSub(RMul(RMul(upd.dg[i], upd.dg[j]), denom1),
                               RMul(RMul(Hdx[i], Hdx[j]), denom2))

C8_Witness ==
    /\ nupd >= 2
    /\ hessian # upd.H
    /\ upd.H # Identity

\* C9: when the minimizer's step fails, CGOptimizer.propagate returns True in
\* that call, without a refresh of the convergence criteria, without the
\* counter and the hooks of the driver, and the step is not tried again.
C9_FailureStops ==
    [][/\ (nmin' = nmin + 1 /\ success' = FALSE) =>
            /\ ret' = TRUE
            /\ pc' = "stopped"
            /\ UNCHANGED <<nconv, converged, counter, nhooks, seen>>
       /\ success = FALSE => nmin' = nmin]_vars

C9_Witness ==
    /\ success = FALSE
    /\ pc = "final"
    /\ nmin >= 2
    /\ counter = nmin - 1

\* C10: BaseOptimizer refreshes the convergence criteria exactly once before it
\* delegates to the driver, in initialize and in every propagate; propagate
\* returns the converged flag of that refresh, so the run goes on while the
\* flag is not set and stops at the first step that sets it.
C10_RefreshThenReturn ==
    pc # "new" =>
        /\ nconv = (counter - Counter0) + 1
        /\ nhooks = nconv
        /\ seen = nconv
        /\ (nprop >= 1 /\ success) => ret = converged
        /\ pc = "idle" => ~converged
        /\ (pc = "stopped" /\ success) => converged

C10_Witness ==
    /\ pc = "stopped"
    /\ success
    /\ converged
    /\ counter >= 2

\* make_step is in a call whose Hessian has no eigenvalue but zero
ZeroSpectrum == pc # "new" /\ caller = "step" /\ \A k \in Idx : evals[k] = Zero

\* C11: when all eigenvalues of the Hessian are zero, make_step divides nothing
\* by zero (no nan in tmp2), does not end with the unhandled error of the
\* selection of the smallest nonzero |eigenvalue|, and ends by reporting a
\* fatal numerical failure.
C11_ZeroSpectrumIsFatal ==
    ZeroSpectrum =>
        /\ ~HasNaN(tmp2)
        /\ pc # "crash"
        /\ pc \in {"inner", "fatal"}

\* C12: a BFGSOptimizer constructed with a malformed small_radius (zero or
\* negative) fails at construction: it never evaluates an energy or makes a
\* step, that is, it never leaves the state of a new object.
C12_MalformedRejected == ~RGt(small_radius, Zero) => pc = "new"

\* the call of make_step is over: it returned a step, or ended with an error
\* (reported as a fatal failure or not)
MakeStepEnded == pc \in {"returned", "crash", "fatal"}

\* C13: every call of make_step ends, with an accepted step or a failure,
\* after finitely many ridge growths and trust radius halvings.  Stated for
\* the energy/gradient functions that return a gradient with a nan at x_old:
\* the call that has reached its loops with such a g_old ends.
C13_MakeStepEnds == (pc = "inner" /\ HasNaN(tmp1)) ~> MakeStepEnded

C15_RidgeSchedule ==
    [][/\ pc = "new" /\ pc' = "inner" =>
            \E k \in Idx :
                /\ \A j \in Idx : RLe(evals'[k], evals'[j])
                /\ ridge' = IF RLe(evals'[k], Zero)
                            THEN RMul(<<11, 10>>, RAbs(evals'[k]))
                            ELSE Zero
       /\ pc # "new" /\ lap' = lap => ridge' = ridge
       /\ pc # "new" /\ lap' # lap /\ ridge' # Inf =>
            IF ridge = Zero
            THEN \E k \in Idx :
                    /\ evals[k] # Zero
                    /\ \A j \in Idx :
                        evals[j] # Zero => RLe(RAbs(evals[k]), RAbs(evals[j]))
                    /\ ridge' = RAbs(evals[k])
            ELSE ridge' = RMul(ridge, <<6, 5>>)]_vars

\* the ridge has grown from 0.0, the step it gave was rejected, and the next
\* pass of the trust radius loop starts from the grown ridge
C15_Witness ==
    /\ pc = "inner"
    /\ caller = "step"
    /\ nrej >= 1
    /\ lap = 1
    /\ ridge # Zero
    /\ ridge # Inf
    /\ InitialRidge(evals) = Zero
    /\ last.q = Tmp2(tmp1, evals, ridge)

\* C16: when the smallest eigenvalue of the Hessian is <= 0, the step that
\* make_step computes with the initial ridge 1.1*|smallest eigenvalue| is a
\* descent direction: delta_x . g_old <= 0, and < 0 when the step is not zero.
C16_InitialRidgeDescends ==
    (/\ pc = "trial"
     /\ caller = "step"
     /\ lap = 0
     /\ ngrow = 0
     /\ RLe(MinEval(evals), Zero)) =>
        LET delta_x == DeltaX(evecs, tmp2)
        IN  /\ RLe(Dot(delta_x, g_old), Zero)
            /\ delta_x # ZeroVec => RLt(Dot(delta_x, g_old), Zero)

\* C17: propagate calls hessian.update with (x - x_old, g - g_old) of the
\* values before the roll, then rolls x_old, f_old, g_old := x, f, g, then runs
\* make_step on the updated Hessian and the rolled values, and refreshes the
\* convergence criteria only when make_step has returned.  make_step itself
\* changes neither the old triple nor the Hessian, so every call of make_step
\* works from the triple the call before returned; the first call works from
\* (x0, f(x0), g(x0)) and the identity Hessian, initialize making no update.
C17_PropagateOrder ==
    [][/\ nprop' = nprop + 1 =>
            /\ upd'.called
            /\ upd'.H = hessian
            /\ upd'.dx = VSub(x, x_old)
            /\ upd'.dg = VSub(g, g_old)
            /\ nupd' = nupd + 1
            /\ <<x_old', f_old', g_old'>> = <<x, f, g>>
            /\ evals' = Evals(hessian')
            /\ tmp1' = Tmp1(evecs', g)
            /\ <<x', f', g', nconv'>> = <<x, f, g, nconv>>
       /\ pc = "new" /\ pc' = "inner" =>
            /\ hessian' = Identity
            /\ nupd' = 0
            /\ ~upd'.called
            /\ x_old' = X0
            /\ epot' = f_old'
            /\ tmp1' = Tmp1(Identity, g_old')
       /\ pc \in {"inner", "trial"} =>
            /\ <<x_old', f_old', g_old'>> = <<x_old, f_old, g_old>>
            /\ hessian' = hessian
       /\ nconv' # nconv /\ caller = "propagate" =>
            /\ pc = "trial"
            /\ pc' \in {"idle", "stopped"}]_vars

\* propagate has returned after an update that changed the Hessian
C17_Witness ==
    /\ Returned
    /\ caller = "propagate"
    /\ nprop >= 1
    /\ upd.called
    /\ hessian # upd.H
    /\ x_old # X0
    /\ nconv = 2

\* C18: CGOptimizer.propagate copies minimizer.x into x only when the step of
\* the minimizer succeeded; at a failed step x keeps the value it had.
C18_CopyOnlyOnSuccess ==
    [][(nmin' = nmin + 1 /\ success' = FALSE) => x' = x]_vars

\* C19: whenever initialize or propagate of the BFGSOptimizer has returned,
\* epot is the f of the accepted step; and every evaluation of make_step and
\* of initialize leaves its own energy in epot, that of a rejected trial
\* included, until the next evaluation replaces it.
C19_EpotOfAccepted ==
    /\ [](Returned => epot = f)
    /\ [][/\ last' # last => epot' = last'.f
          /\ pc = "new" /\ pc' = "inner" => epot' = f_old'
          /\ epot' # epot => (last' # last \/ pc = "new")]_vars

\* initialize has returned from a make_step that rejected a trial of energy 1
\* (only the first test rejects a zero step above small_radius) and accepted
\* one of energy 0
C19_Witness ==
    /\ Returned
    /\ caller = "initialize"
    /\ nrej >= 1
    /\ small_radius = Eps
    /\ g_old = ZeroVec
    /\ f_old = Zero
    /\ f = Zero
    /\ epot = Zero

\* the leading principal minors of a matrix, up to order 3
LeadingMinor(H, n) ==
    IF n = 1 THEN H[1][1]
    ELSE IF n = 2 THEN RSub(RMul(H[1][1], H[2][2]), RMul(H[1][2], H[2][1]))
    ELSE RAdd(RSub(RMul(H[1][1], RSub(RMul(H[2][2], H[3][3]),
                                      RMul(H[2][3], H[3][2]))),
                   RMul(H[1][2], RSub(RMul(H[2][1], H[3][3]),
                                      RMul(H[2][3], H[3][1])))),
              RMul(H[1][3], RSub(RMul(H[2][1], H[3][2]),
                                 RMul(H[2][2], H[3][1]))))

\* Sylvester's criterion for a symmetric matrix
PositiveDefinite(H) ==
    /\ \A i \in Idx, j \in Idx : H[i][j] = H[j][i]
    /\ \A n \in Idx : RGt(LeadingMinor(H, n), Zero)

\* C20: an update with denom1 = dx.H.dx <= 0 or denom2 = dg.dx <= 0 is
\* skipped; the Hessian, the identity at first, is positive definite after
\* any sequence of updates; trust_radius is > 0; and every call of make_step
\* by initialize or propagate finds all eigenvalues > 0 and starts with
\* ridge = 0.
C20_PositiveDefinite ==
    /\ [](/\ PositiveDefinite(hessian)
          /\ RGt(trust_radius, Zero)
          /\ (/\ upd.called
              /\ \/ RLe(Dot(upd.dx, MatVec(upd.H, upd.dx)), Zero)
                 \/ RLe(Dot(upd.dg, upd.dx), Zero)) => hessian = upd.H)
    /\ [][(pc \in {"new", "idle"} /\ pc' = "inner") =>
            (ridge' = Zero /\ \A k \in Idx : RGt(evals'[k], Zero))]_vars

\* two updates were made, the last one with both denominators > 0, and the
\* Hessian it left is not diagonal
C20_Witness ==
    /\ nupd >= 2
    /\ upd.called
    /\ hessian # upd.H
    /\ hessian[1][2] # Zero
    /\ upd.H # Identity

\* propagate has updated the Hessian and make_step has started on it
C20_WitnessStep ==
    /\ pc = "inner"
    /\ caller = "propagate"
    /\ hessian # Identity
    /\ ridge = Zero

====
